---- MODULE Spec2Model ----
(***************************************************************************)
(* Model of generate_simple.py: the SwarmSH semantic-convention code       *)
(* generator (registry loader, constant emitter, span-builder emitter and  *)
(* the main() pipeline that writes attributes.rs and span_builders.rs).    *)
(*                                                                         *)
(* Text representation.  A Python str that the generator transforms        *)
(* character by character (group ids, attribute ids, identifiers built     *)
(* from them) is a sequence of one-character strings.  A fixed fragment of *)
(* an emitted line ("pub fn ", ": &str = \"", ...) is one multi-character  *)
(* token.  A line is the concatenation of such pieces, and an emitted text *)
(* ("\n".join(lines)) is the sequence of its lines; no emitted line holds  *)
(* a newline, so the join loses nothing.                                   *)
(*                                                                         *)
(* A YAML mapping is a function whose DOMAIN is the set of keys present.   *)
(***************************************************************************)
EXTENDS Integers, Sequences, FiniteSets, TLC

VARIABLES manifest, files, pc, run, conventions, attributes_code,
          span_builders_code, out_dir, disk_attributes, disk_span_builders,
          written

vars == <<manifest, files, pc, run, conventions, attributes_code,
          span_builders_code, out_dir, disk_attributes, disk_span_builders,
          written>>

----------------------------------------------------------------------------
(* Bounds of the model *)

\* longest attributes list of a group
MaxAttrs == 2

\* number of further groups declared around a group in its document
MaxContext == 1

\* number of successive runs of main() over the same registry
MaxRuns == 2

----------------------------------------------------------------------------
(* Characters and the str methods the generator uses.  Ids are taken over  *)
(* ASCII letters, "." and "_": upper() and lower() map the letters and      *)
(* leave every other character as it is.                                    *)

LowerChars == <<"a","b","c","d","e","f","g","h","i","j","k","l","m","n","o","p","q","r","s","t","u","v","w","x","y","z">>

UpperChars == <<"A","B","C","D","E","F","G","H","I","J","K","L","M","N","O","P","Q","R","S","T","U","V","W","X","Y","Z">>

UpperChar(c) ==
  IF \E i \in DOMAIN LowerChars : LowerChars[i] = c
  THEN UpperChars[CHOOSE i \in DOMAIN LowerChars : LowerChars[i] = c]
  ELSE c

LowerChar(c) ==
  IF \E i \in DOMAIN UpperChars : UpperChars[i] = c
  THEN LowerChars[CHOOSE i \in DOMAIN UpperChars : UpperChars[i] = c]
  ELSE c

\* str.upper()
Upper(s) == [i \in 1..Len(s) |-> UpperChar(s[i])]

\* str.lower()
Lower(s) == [i \in 1..Len(s) |-> LowerChar(s[i])]

\* str.replace(old, new) for one-character old and new
Replace(s, old, new) == [i \in 1..Len(s) |-> IF s[i] = old THEN new ELSE s[i]]

\* key in mapping
Has(d, k) == k \in DOMAIN d

\* the outcome of a call: a returned value, or an exception that propagates
Returned(v) == [ok |-> TRUE, value |-> v]

Raised == [ok |-> FALSE, value |-> <<>>]

\* a local variable of main(): not yet assigned, or bound to a value
Unassigned == [bound |-> FALSE, value |-> <<>>]

Bound(v) == [bound |-> TRUE, value |-> v]

\* the result of yaml.safe_load: None for an empty document, or a mapping
YamlNone == [tag |-> "none"]

YamlMap(m) == [tag |-> "map", map |-> m]

----------------------------------------------------------------------------
(* load_semantic_conventions *)

\* conventions[path] = data on an insertion-ordered dict, kept as a sequence
\* of items: a new key is appended, a known key keeps its position
DictSet(conv, path, data) ==
  IF \E i \in DOMAIN conv : conv[i].path = path
  THEN [i \in DOMAIN conv |->
          IF conv[i].path = path THEN [path |-> path, data |-> data] ELSE conv[i]]
  ELSE Append(conv, [path |-> path, data |-> data])

\* the paths of registry["groups"], in the order the two nested loops visit them
RECURSIVE ManifestPaths(_, _)
ManifestPaths(groups, i) ==
  IF i > Len(groups) THEN <<>>
  ELSE groups[i]["paths"] \o ManifestPaths(groups, i + 1)

\* a loader that passes over an unreadable file and keeps what it has loaded
RECURSIVE LoadLoopLenient(_, _, _, _)
LoadLoopLenient(fs, paths, i, conv) ==
  IF i > Len(paths) THEN Returned(conv)
  ELSE IF fs[paths[i]].state # "ok" THEN LoadLoopLenient(fs, paths, i + 1, conv)
  ELSE LoadLoopLenient(fs, paths, i + 1, DictSet(conv, paths[i], fs[paths[i]].content))

load_semantic_conventions_lenient(mf, fs) ==
  IF mf.state # "ok" THEN Returned(<<>>)
  ELSE LoadLoopLenient(fs, ManifestPaths(mf.content["groups"], 1), 1, <<>>)

\* open + yaml.safe_load of each path: a missing or malformed file raises
RECURSIVE LoadLoop(_, _, _, _)
LoadLoop(fs, paths, i, conv) ==
  IF i > Len(paths) THEN Returned(conv)
  ELSE IF fs[paths[i]].state # "ok" THEN Raised
  ELSE LoadLoop(fs, paths, i + 1, DictSet(conv, paths[i], fs[paths[i]].content))

load_semantic_conventions(mf, fs) ==
  IF mf.state # "ok" THEN Raised
  ELSE LoadLoop(fs, ManifestPaths(mf.content["groups"], 1), 1, <<>>)

----------------------------------------------------------------------------
(* generate_attributes_rs *)

AttributesHeader ==
  << <<"// Generated from SwarmSH v2 semantic conventions">>,
     <<"// 80/20 implementation - core attributes only">>,
     <<>>,
     <<"use std::collections::HashMap;">>,
     <<>> >>

CloseLine == <<"}">>

BlankLine == <<>>

\* f"// {group.get('brief', 'Group constants')}"
CommentLine(group) ==
  <<"// ", IF Has(group, "brief") THEN group["brief"] ELSE "Group constants">>

\* group_id = group["id"].replace(".", "_").upper(); f"pub mod {group_id.lower()} {{"
ModLine(group) ==
  <<"pub mod ">> \o Lower(Upper(Replace(group["id"], ".", "_"))) \o <<" {">>

\* the constant name without the upper-casing
AttrNameNoUpper(attr) == Replace(attr["id"], ".", "_")

\* attr_name = attr["id"].replace(".", "_").upper()
AttrName(attr) == Upper(Replace(attr["id"], ".", "_"))

\* attr_value = f"{group['id']}.{attr['id']}"
AttrValue(group, attr) == group["id"] \o <<".">> \o attr["id"]

ConstLine(group, attr) ==
  <<"    pub const ">> \o AttrName(attr) \o <<": &str = \"">>
     \o AttrValue(group, attr) \o <<"\";">>

\* the lines one attribute entry appends: none when it has no id
AttrLines(group, attr) ==
  IF Has(attr, "id") THEN <<ConstLine(group, attr)>> ELSE <<>>

\* an emitter that keeps names unique: an entry is dropped when a later entry
\* of the group has the same constant name
RECURSIVE ConstLinesLastWins(_, _, _)
ConstLinesLastWins(group, attrs, i) ==
  IF i > Len(attrs) THEN <<>>
  ELSE (IF \E j \in (i + 1)..Len(attrs) :
             /\ Has(attrs[i], "id") /\ Has(attrs[j], "id")
             /\ AttrName(attrs[j]) = AttrName(attrs[i])
        THEN <<>>
        ELSE AttrLines(group, attrs[i]))
       \o ConstLinesLastWins(group, attrs, i + 1)

RECURSIVE ConstLines(_, _, _)
ConstLines(group, attrs, i) ==
  IF i > Len(attrs) THEN <<>>
  ELSE AttrLines(group, attrs[i]) \o ConstLines(group, attrs, i + 1)

\* the attributes the inner loop visits: none when the key is absent
GroupAttributes(group) ==
  IF Has(group, "attributes") THEN group["attributes"] ELSE <<>>

GroupBlock(group) ==
  <<CommentLine(group), ModLine(group)>>
    \o ConstLines(group, GroupAttributes(group), 1)
    \o <<CloseLine, BlankLine>>

RECURSIVE GroupBlocks(_, _)
GroupBlocks(groups, i) ==
  IF i > Len(groups) THEN <<>>
  ELSE GroupBlock(groups[i]) \o GroupBlocks(groups, i + 1)

\* "groups" not in data: continue
DocBlocks(data) ==
  IF ~Has(data.map, "groups") THEN <<>> ELSE GroupBlocks(data.map["groups"], 1)

RECURSIVE ConvBlocks(_, _)
ConvBlocks(conv, i) ==
  IF i > Len(conv) THEN <<>>
  ELSE DocBlocks(conv[i].data) \o ConvBlocks(conv, i + 1)

\* the exceptions of a loop body that reads attr["id"] without testing for it
AttrGroupRaisesOnAttrWithoutId(group) ==
  \/ ~Has(group, "id")
  \/ /\ Has(group, "attributes")
     /\ \E i \in DOMAIN group["attributes"] : ~Has(group["attributes"][i], "id")

\* the exceptions of a loop body that reads group["attributes"] without
\* testing for it
AttrGroupRaisesWithoutAttributes(group) ==
  ~Has(group, "id") \/ ~Has(group, "attributes")

\* group["id"] raises KeyError on a group without id
AttrGroupRaises(group) == ~Has(group, "id")

\* "groups" not in None raises TypeError; otherwise a group of the document may
AttrDataRaises(data) ==
  \/ data.tag = "none"
  \/ /\ Has(data.map, "groups")
     /\ \E i \in DOMAIN data.map["groups"] : AttrGroupRaises(data.map["groups"][i])

generate_attributes_rs(conv) ==
  IF \E i \in DOMAIN conv : AttrDataRaises(conv[i].data) THEN Raised
  ELSE Returned(AttributesHeader \o ConvBlocks(conv, 1))

----------------------------------------------------------------------------
(* generate_span_builders_rs *)

FnHead == "pub fn "

FnTail == "(tracer: &impl Tracer) -> BoxedSpan {"

StartHead == "    tracer.start(\""

StartTail == "\")"

FnLine(name) == <<FnHead>> \o name \o <<FnTail>>

StartLine(span_name) == <<StartHead>> \o span_name \o <<StartTail>>

S_agent_lifecycle_span == <<"a","g","e","n","t","_","l","i","f","e","c","y","c","l","e","_","s","p","a","n">>

S_work_coordination_span == <<"w","o","r","k","_","c","o","o","r","d","i","n","a","t","i","o","n","_","s","p","a","n">>

S_coordination_protocol_span == <<"c","o","o","r","d","i","n","a","t","i","o","n","_","p","r","o","t","o","c","o","l","_","s","p","a","n">>

S_swarmsh_agent_lifecycle == <<"s","w","a","r","m","s","h",".","a","g","e","n","t",".","l","i","f","e","c","y","c","l","e">>

S_swarmsh_work_coordination == <<"s","w","a","r","m","s","h",".","w","o","r","k",".","c","o","o","r","d","i","n","a","t","i","o","n">>

S_swarmsh_coordination_protocol == <<"s","w","a","r","m","s","h",".","c","o","o","r","d","i","n","a","t","i","o","n",".","p","r","o","t","o","c","o","l">>

S_create_ == <<"c","r","e","a","t","e","_">>

S_span == <<"_","s","p","a","n">>

\* the initial value of lines: the header and the three core span builders
SpanBuildersPreamble ==
  << <<"// Generated span builders from SwarmSH v2 semantic conventions">>,
     <<>>,
     <<"use opentelemetry::global::BoxedSpan;">>,
     <<"use opentelemetry::trace::Tracer;">>,
     <<>>,
     <<"// Core span builders expected by lib.rs">>,
     FnLine(S_agent_lifecycle_span),
     StartLine(S_swarmsh_agent_lifecycle),
     CloseLine,
     BlankLine,
     FnLine(S_work_coordination_span),
     StartLine(S_swarmsh_work_coordination),
     CloseLine,
     BlankLine,
     FnLine(S_coordination_protocol_span),
     StartLine(S_swarmsh_coordination_protocol),
     CloseLine,
     BlankLine,
     <<"// Generated span builders for all groups">> >>

\* the span test on the kind key
IsSpanGroupByKind(group) == Has(group, "kind") /\ group["kind"] = "span"

\* group.get("type") == "span"
IsSpanGroup(group) == Has(group, "type") /\ group["type"] = "span"

\* the function name without the create_ prefix
FunctionNameNoPrefix(group) == Replace(group["id"], ".", "_") \o S_span

\* group_name = group["id"].replace(".", "_"); f"create_{group_name}_span"
FunctionName(group) == S_create_ \o Replace(group["id"], ".", "_") \o S_span

\* the lines one group appends: none unless it is a span group
SpanGroupLines(group) ==
  IF IsSpanGroup(group)
  THEN <<FnLine(FunctionName(group)), StartLine(group["id"]), CloseLine, BlankLine>>
  ELSE <<>>

RECURSIVE SpanGroupsLines(_, _)
SpanGroupsLines(groups, i) ==
  IF i > Len(groups) THEN <<>>
  ELSE SpanGroupLines(groups[i]) \o SpanGroupsLines(groups, i + 1)

SpanDocLines(data) ==
  IF ~Has(data.map, "groups") THEN <<>> ELSE SpanGroupsLines(data.map["groups"], 1)

RECURSIVE SpanConvLines(_, _)
SpanConvLines(conv, i) ==
  IF i > Len(conv) THEN <<>>
  ELSE SpanDocLines(conv[i].data) \o SpanConvLines(conv, i + 1)

\* group["id"] is read only for a span group
SpanGroupRaises(group) == IsSpanGroup(group) /\ ~Has(group, "id")

SpanDataRaises(data) ==
  \/ data.tag = "none"
  \/ /\ Has(data.map, "groups")
     /\ \E i \in DOMAIN data.map["groups"] : SpanGroupRaises(data.map["groups"][i])

\* an emitter whose core builders are a fallback: the builder of
\* swarmsh.agent.lifecycle is left out when a span group of the registry
\* has that id
PreambleFallback(emitted) ==
  LET first == CHOOSE i \in DOMAIN SpanBuildersPreamble :
                 SpanBuildersPreamble[i] = FnLine(S_agent_lifecycle_span)
      size  == Len(<<"fn", "start", "}", "">>)
  IN  IF \E j \in DOMAIN emitted : emitted[j] = StartLine(S_swarmsh_agent_lifecycle)
      THEN SubSeq(SpanBuildersPreamble, 1, first - 1)
             \o SubSeq(SpanBuildersPreamble, first + size, Len(SpanBuildersPreamble))
      ELSE SpanBuildersPreamble

generate_span_builders_rs_fallback(conv) ==
  IF \E i \in DOMAIN conv : SpanDataRaises(conv[i].data) THEN Raised
  ELSE Returned(PreambleFallback(SpanConvLines(conv, 1)) \o SpanConvLines(conv, 1))

generate_span_builders_rs(conv) ==
  IF \E i \in DOMAIN conv : SpanDataRaises(conv[i].data) THEN Raised
  ELSE Returned(SpanBuildersPreamble \o SpanConvLines(conv, 1))

----------------------------------------------------------------------------
(* The registries the model runs the generator on *)

Id_swarmsh_agent == <<"s","w","a","r","m","s","h",".","a","g","e","n","t">>

Id_agent_lifecycle == <<"a","g","e","n","t",".","l","i","f","e","c","y","c","l","e">>

Id_Swarmsh_Work == <<"S","w","a","r","m","s","h",".","W","o","r","k">>

Id_swarmsh_health == <<"s","w","a","r","m","s","h",".","h","e","a","l","t","h">>

Id_swarmsh_coordination == <<"s","w","a","r","m","s","h",".","c","o","o","r","d","i","n","a","t","i","o","n">>

A_agent_id == <<"a","g","e","n","t",".","i","d">>

A_agent_id_u == <<"a","g","e","n","t","_","i","d">>

A_check_status == <<"c","h","e","c","k",".","s","t","a","t","u","s">>

A_check_latency_ms == <<"c","h","e","c","k",".","l","a","t","e","n","c","y","_","m","s">>

A_coordination_pattern == <<"c","o","o","r","d","i","n","a","t","i","o","n",".","p","a","t","t","e","r","n">>

EmptyMap == [k \in {} |-> TRUE]

\* attribute entries: two ids with the same constant name, and one without id
AttrPool == {[id |-> A_agent_id], [id |-> A_agent_id_u], [brief |-> "entry without id"]}

AttrLists == UNION {[1..n -> AttrPool] : n \in 0..MaxAttrs}

GroupIds ==
  {Id_swarmsh_agent, S_swarmsh_agent_lifecycle, Id_agent_lifecycle, Id_Swarmsh_Work}

Tags == {EmptyMap, [type |-> "span"], [kind |-> "span"], [type |-> "attribute_group"]}

\* one group id, every attributes list (absent included)
VaryAttrsGroups ==
  {[id |-> Id_swarmsh_agent, brief |-> "Agent attributes"] @@ a :
     a \in {EmptyMap} \cup {[attributes |-> l] : l \in AttrLists}}

\* every group id under every tag, one attribute
VaryIdGroups ==
  {[id |-> i, attributes |-> <<[id |-> A_agent_id]>>] @@ t : i \in GroupIds, t \in Tags}

\* groups that lack the id key
NoIdGroups == {[brief |-> "group without id"], [type |-> "span"]}

GroupPool == VaryAttrsGroups \cup VaryIdGroups \cup NoIdGroups

\* the groups declared around the varying one; their ids occur nowhere else
ContextGroups ==
  << [id |-> S_swarmsh_coordination_protocol, type |-> "span", brief |-> "Protocol span"],
     [id |-> Id_swarmsh_coordination,
      attributes |-> <<[id |-> A_coordination_pattern]>>],
     [id |-> S_swarmsh_work_coordination, type |-> "span", attributes |-> <<>>] >>

Around(g, before, after) ==
  SubSeq(ContextGroups, 1, before) \o <<g>>
    \o SubSeq(ContextGroups, before + 1, before + after)

\* how many groups stand before and after the varying one
Contexts ==
  {c \in (0..MaxContext) \X (0..MaxContext) :
     c[1] + c[2] <= MaxContext /\ c[1] + c[2] <= Len(ContextGroups)}

Documents1 ==
  {[groups |-> Around(g, c[1], c[2])] : g \in GroupPool, c \in Contexts}
  \cup {[groups |-> <<>>], [version |-> "1.0"]}

HealthDocument ==
  [groups |-> << [id |-> Id_swarmsh_health, brief |-> "Health checks",
                  attributes |-> <<[id |-> A_check_status],
                                   [id |-> A_check_latency_ms]>>] >>]

Missing == [state |-> "missing"]

Malformed == [state |-> "malformed"]

Ok(content) == [state |-> "ok", content |-> content]

FilePool1 == {Missing, Malformed} \cup {Ok(YamlMap(d)) : d \in Documents1}

FilePool2 ==
  {Missing, Malformed, Ok(YamlNone), Ok(YamlMap([version |-> "1.0"])),
   Ok(YamlMap(HealthDocument))}

Paths == {"swarmsh-agent.yaml", "swarmsh-health.yaml"}

ManifestPool ==
  { Ok([groups |-> << [paths |-> <<"swarmsh-agent.yaml">>],
                      [paths |-> <<"swarmsh-health.yaml">>] >>]),
    Ok([groups |-> << [paths |-> <<"swarmsh-health.yaml", "swarmsh-agent.yaml">>],
                      [paths |-> <<"swarmsh-health.yaml">>] >>]) }

\* manifests under which no convention file is read
BareManifestPool == {Missing, Malformed, Ok([groups |-> <<>>])}

NoFile == [exists |-> FALSE, text |-> <<>>]

StaleFile == [exists |-> TRUE, text |-> << <<"// artifact of an earlier generation">> >>]

----------------------------------------------------------------------------
(* main *)

Init ==
  /\ \/ /\ manifest \in ManifestPool
        /\ files \in {f \in [Paths -> FilePool1 \cup FilePool2] :
                        /\ f["swarmsh-agent.yaml"] \in FilePool1
                        /\ f["swarmsh-health.yaml"] \in FilePool2}
     \/ /\ manifest \in BareManifestPool
        /\ files = [p \in Paths |-> Missing]
  /\ pc = "start"
  /\ run = 1
  /\ conventions = Unassigned
  /\ attributes_code = Unassigned
  /\ span_builders_code = Unassigned
  /\ written = {}
  /\ \/ out_dir = FALSE /\ disk_attributes = NoFile /\ disk_span_builders = NoFile
     \/ out_dir = TRUE /\ disk_attributes = StaleFile /\ disk_span_builders = StaleFile

\* a write that appends to the file instead of truncating it
WriteFileAppend(old, code) == [exists |-> TRUE, text |-> old.text \o code]

\* with open(path, "w") as f: f.write(code)
WriteFile(old, code) == [exists |-> TRUE, text |-> code]

\* line 106: conventions = load_semantic_conventions()
Load ==
  /\ pc = "start"
  /\ LET r == load_semantic_conventions(manifest, files)
     IN  IF r.ok
         THEN conventions' = Bound(r.value) /\ pc' = "loaded"
         ELSE conventions' = conventions /\ pc' = "aborted"
  /\ UNCHANGED <<manifest, files, run, attributes_code, span_builders_code,
                 out_dir, disk_attributes, disk_span_builders, written>>

\* lines 110-111: output_dir.mkdir(exist_ok=True)
MakeOutputDir ==
  /\ pc = "loaded"
  /\ out_dir' = TRUE
  /\ pc' = "dir_ready"
  /\ UNCHANGED <<manifest, files, run, conventions, attributes_code,
                 span_builders_code, disk_attributes, disk_span_builders, written>>

\* line 114: attributes_code = generate_attributes_rs(conventions)
GenerateAttributes ==
  /\ pc = "dir_ready"
  /\ LET r == generate_attributes_rs(conventions.value)
     IN  IF r.ok
         THEN attributes_code' = Bound(r.value) /\ pc' = "attributes_generated"
         ELSE attributes_code' = attributes_code /\ pc' = "aborted"
  /\ UNCHANGED <<manifest, files, run, conventions, span_builders_code,
                 out_dir, disk_attributes, disk_span_builders, written>>

\* a main() whose first write is missing
WriteAttributesSkipped ==
  /\ pc = "attributes_generated"
  /\ pc' = "attributes_written"
  /\ UNCHANGED <<manifest, files, run, conventions, attributes_code,
                 span_builders_code, out_dir, disk_attributes,
                 disk_span_builders, written>>

\* lines 115-116: attributes.rs is opened for writing and written
WriteAttributes ==
  /\ pc = "attributes_generated"
  /\ disk_attributes' = WriteFile(disk_attributes, attributes_code.value)
  /\ written' = written \cup {"attributes.rs"}
  /\ pc' = "attributes_written"
  /\ UNCHANGED <<manifest, files, run, conventions, attributes_code,
                 span_builders_code, out_dir, disk_span_builders>>

\* line 120: span_builders_code = generate_span_builders_rs(conventions)
GenerateSpanBuilders ==
  /\ pc = "attributes_written"
  /\ LET r == generate_span_builders_rs(conventions.value)
     IN  IF r.ok
         THEN span_builders_code' = Bound(r.value) /\ pc' = "span_builders_generated"
         ELSE span_builders_code' = span_builders_code /\ pc' = "aborted"
  /\ UNCHANGED <<manifest, files, run, conventions, attributes_code,
                 out_dir, disk_attributes, disk_span_builders, written>>

\* lines 121-122: span_builders.rs is opened for writing and written
WriteSpanBuilders ==
  /\ pc = "span_builders_generated"
  /\ disk_span_builders' = WriteFile(disk_span_builders, span_builders_code.value)
  /\ written' = written \cup {"span_builders.rs"}
  /\ pc' = "done"
  /\ UNCHANGED <<manifest, files, run, conventions, attributes_code,
                 span_builders_code, out_dir, disk_attributes>>

\* the generator is run again on the same registry: a fresh process, the
\* artifacts and the output directory stay as the last run left them
RunAgain ==
  /\ pc \in {"done", "aborted"}
  /\ run < MaxRuns
  /\ run' = run + 1
  /\ pc' = "start"
  /\ conventions' = Unassigned
  /\ attributes_code' = Unassigned
  /\ span_builders_code' = Unassigned
  /\ written' = {}
  /\ UNCHANGED <<manifest, files, out_dir, disk_attributes, disk_span_builders>>

Next ==
  \/ Load
  \/ MakeOutputDir
  \/ GenerateAttributes
  \/ WriteAttributes
  \/ GenerateSpanBuilders
  \/ WriteSpanBuilders
  \/ RunAgain

Spec == Init /\ [][Next]_vars

----------------------------------------------------------------------------
(* Reading the registry and the emitted texts back, for the properties *)

\* the groups of the loaded registry, in emission order
RECURSIVE RegistryGroupsFrom(_, _)
RegistryGroupsFrom(conv, i) ==
  IF i > Len(conv) THEN <<>>
  ELSE (IF conv[i].data.tag = "map" /\ "groups" \in DOMAIN conv[i].data.map
        THEN conv[i].data.map["groups"] ELSE <<>>)
       \o RegistryGroupsFrom(conv, i + 1)

RegistryGroups == RegistryGroupsFrom(conventions.value, 1)

\* the registry holds something the emitters cannot read: an empty document
\* or a group without id
BrokenRegistry ==
  \/ \E i \in DOMAIN conventions.value : conventions.value[i].data.tag = "none"
  \/ \E k \in DOMAIN RegistryGroups : "id" \notin DOMAIN RegistryGroups[k]

\* the attribute entries of a group that carry an id, in declared order
IdAttrs(group) ==
  IF "attributes" \in DOMAIN group
  THEN SelectSeq(group["attributes"], LAMBDA a : "id" \in DOMAIN a)
  ELSE <<>>

IsModLine(l) == Len(l) >= 2 /\ l[1] = "pub mod " /\ l[Len(l)] = " {"

ModName(l) == SubSeq(l, 2, Len(l) - 1)

IsConstLine(l) ==
  /\ Len(l) >= 3 /\ l[1] = "    pub const " /\ l[Len(l)] = "\";"
  /\ \E i \in 2..(Len(l) - 1) : l[i] = ": &str = \""

ConstMid(l) == CHOOSE i \in 2..(Len(l) - 1) : l[i] = ": &str = \""

ConstName(l) == SubSeq(l, 2, ConstMid(l) - 1)

ConstValue(l) == SubSeq(l, ConstMid(l) + 1, Len(l) - 1)

IsFnLine(l) == Len(l) >= 2 /\ l[1] = FnHead /\ l[Len(l)] = FnTail

FnName(l) == SubSeq(l, 2, Len(l) - 1)

IsStartLine(l) == Len(l) >= 2 /\ l[1] = StartHead /\ l[Len(l)] = StartTail

StartedSpan(l) == SubSeq(l, 2, Len(l) - 1)

\* the positions of the pub mod lines of a text, ascending
ModLines(text) ==
  SelectSeq([i \in 1..Len(text) |-> i], LAMBDA i : IsModLine(text[i]))

\* the position of the first closing line after position m (0: there is none)
CloseAfter(text, m) ==
  IF \E i \in (m + 1)..Len(text) : text[i] = CloseLine
  THEN CHOOSE i \in (m + 1)..Len(text) :
         /\ text[i] = CloseLine
         /\ \A j \in (m + 1)..(i - 1) : text[j] # CloseLine
  ELSE 0

RECURSIVE SumIdAttrs(_, _)
SumIdAttrs(gs, k) ==
  IF k > Len(gs) THEN 0 ELSE Len(IdAttrs(gs[k])) + SumIdAttrs(gs, k + 1)

\* the constants pass has returned in this run
AttributesEmitted == attributes_code.bound

\* the span-builder pass has returned in this run
SpanBuildersEmitted == span_builders_code.bound

\* the text holds a function of that name whose body starts that span
HasBuilder(text, fn_name, span_name) ==
  \E i \in 1..(Len(text) - 1) :
    /\ IsFnLine(text[i]) /\ FnName(text[i]) = fn_name
    /\ IsStartLine(text[i + 1]) /\ StartedSpan(text[i + 1]) = span_name

DotsToUnderscores(s) == [i \in 1..Len(s) |-> IF s[i] = "." THEN "_" ELSE s[i]]

X_create_swarmsh_coordination_protocol_span == <<"c","r","e","a","t","e","_","s","w","a","r","m","s","h","_","c","o","o","r","d","i","n","a","t","i","o","n","_","p","r","o","t","o","c","o","l","_","s","p","a","n">>

X_swarmsh_agent == <<"s","w","a","r","m","s","h","_","a","g","e","n","t">>

X_swarmsh_work == <<"s","w","a","r","m","s","h","_","w","o","r","k">>

X_AGENT_ID == <<"A","G","E","N","T","_","I","D">>

X_swarmsh_agent_agent_id == <<"s","w","a","r","m","s","h",".","a","g","e","n","t",".","a","g","e","n","t",".","i","d">>

----------------------------------------------------------------------------
(* C1: span selection *)

GroupBuilt(g) ==
  HasBuilder(span_builders_code.value,
             S_create_ \o DotsToUnderscores(g["id"]) \o S_span, g["id"])

\* C1 as stated: a group gets its builder create_<id with _>_span, starting a
\* span named by the raw id, exactly when its kind field equals "span".
C1_SpanSelectionByKind ==
  SpanBuildersEmitted =>
    \A k \in DOMAIN RegistryGroups :
      LET g == RegistryGroups[k]
      IN  GroupBuilt(g) <=> ("kind" \in DOMAIN g /\ g["kind"] = "span")

\* C1 amended: a group gets its builder create_<id with _>_span, starting a
\* span named by the raw id, exactly when its type field equals "span"; the
\* kind field is not read.  The group swarmsh.coordination.protocol of type
\* span gets create_swarmsh_coordination_protocol_span.
C1_SpanSelectionByType ==
  SpanBuildersEmitted =>
    /\ \A k \in DOMAIN RegistryGroups :
         LET g == RegistryGroups[k]
         IN  GroupBuilt(g) <=> ("type" \in DOMAIN g /\ g["type"] = "span")
    /\ (\E k \in DOMAIN RegistryGroups :
          RegistryGroups[k]["id"] = S_swarmsh_coordination_protocol)
         => HasBuilder(span_builders_code.value,
                       X_create_swarmsh_coordination_protocol_span,
                       S_swarmsh_coordination_protocol)

C1_Witness ==
  /\ SpanBuildersEmitted
  /\ \E k \in DOMAIN RegistryGroups :
       LET g == RegistryGroups[k]
       IN  "type" \in DOMAIN g /\ g["type"] = "span" /\ GroupBuilt(g)
  /\ \E k \in DOMAIN RegistryGroups :
       LET g == RegistryGroups[k]
       IN  "kind" \in DOMAIN g /\ g["kind"] = "span" /\ ~GroupBuilt(g)

----------------------------------------------------------------------------
(* C2: a missing or malformed input is fatal *)

ReferencedPaths ==
  IF manifest.state = "ok"
  THEN UNION {{manifest.content["groups"][i]["paths"][j] :
                 j \in DOMAIN manifest.content["groups"][i]["paths"]} :
              i \in DOMAIN manifest.content["groups"]}
  ELSE {}

InputMissing ==
  \/ manifest.state # "ok"
  \/ \E p \in ReferencedPaths : files[p].state # "ok"

\* C2: when the manifest or a convention file it references is missing or
\* malformed, the run aborts in the load, main() never holds a registry, and no
\* step of the run creates or changes attributes.rs or span_builders.rs.
C2_FatalOnMissingInput ==
  /\ [](InputMissing =>
          /\ pc \in {"start", "aborted"}
          /\ ~conventions.bound
          /\ written = {})
  /\ [][InputMissing =>
          /\ disk_attributes' = disk_attributes
          /\ disk_span_builders' = disk_span_builders]_vars

C2_Witness ==
  /\ manifest.state = "ok"
  /\ files["swarmsh-agent.yaml"].state = "ok"
  /\ files["swarmsh-health.yaml"].state = "missing"
  /\ pc = "aborted"
  /\ run = MaxRuns
  /\ disk_attributes = StaleFile
  /\ disk_span_builders = StaleFile

----------------------------------------------------------------------------
(* C3: the order of emission and writing *)

\* C3 as stated: nothing is written before both passes have returned, and an
\* aborted run has written both artifacts or neither.
C3_WriteAfterBothPasses ==
  /\ written # {} => (AttributesEmitted /\ SpanBuildersEmitted)
  /\ pc = "aborted" => written \in {{}, {"attributes.rs", "span_builders.rs"}}

\* C3 amended: attributes.rs is written once the constants pass has returned,
\* and before the span-builder pass; span_builders.rs is written only after
\* both passes have returned and attributes.rs has been written.  A run never
\* has span_builders.rs written and attributes.rs not.
C3_WriteOrder ==
  /\ "attributes.rs" \in written =>
       /\ AttributesEmitted
       /\ disk_attributes = [exists |-> TRUE, text |-> attributes_code.value]
  /\ "span_builders.rs" \in written =>
       /\ AttributesEmitted /\ SpanBuildersEmitted
       /\ "attributes.rs" \in written
       /\ disk_span_builders = [exists |-> TRUE, text |-> span_builders_code.value]
  /\ (SpanBuildersEmitted \/ (pc = "aborted" /\ AttributesEmitted))
       => "attributes.rs" \in written

C3_Witness ==
  /\ written = {"attributes.rs"}
  /\ ~SpanBuildersEmitted
  /\ pc = "attributes_written"

----------------------------------------------------------------------------
(* C4: completeness of the constants *)

\* the k-th pub mod line opens the block of the k-th group: between it and the
\* first closing line after it stand exactly the constants of the group's
\* attributes that have an id, one each, in declared order
BlockComplete(text, mods, gs, k) ==
  LET m   == mods[k]
      c   == CloseAfter(text, m)
      ids == IdAttrs(gs[k])
  IN  /\ c > m
      /\ c - m - 1 = Len(ids)
      /\ \A j \in 1..Len(ids) :
           /\ IsConstLine(text[m + j])
           /\ ConstValue(text[m + j]) = gs[k]["id"] \o <<".">> \o ids[j]["id"]
      /\ (k < Len(gs) => c < mods[k + 1])

\* C4: every attribute entry with an id yields exactly one constant line, between
\* its group's pub mod line and that block's closing line; an entry without id
\* yields none and does not make the constants pass fail, so a block holds as
\* many constant lines as its group has attributes with an id.
C4_Completeness ==
  /\ AttributesEmitted =>
       LET text == attributes_code.value
           mods == ModLines(text)
           gs   == RegistryGroups
       IN  /\ Len(mods) = Len(gs)
           /\ \A k \in DOMAIN gs : BlockComplete(text, mods, gs, k)
           /\ Cardinality({i \in DOMAIN text : IsConstLine(text[i])})
                = SumIdAttrs(gs, 1)
  /\ (conventions.bound /\ ~BrokenRegistry) => pc # "aborted"

C4_Witness ==
  /\ AttributesEmitted
  /\ \E k \in DOMAIN RegistryGroups :
       LET g == RegistryGroups[k]
       IN  /\ "attributes" \in DOMAIN g
           /\ Len(g["attributes"]) = MaxAttrs
           /\ Len(IdAttrs(g)) = 1
           /\ g["attributes"][1] = [brief |-> "entry without id"]

----------------------------------------------------------------------------
(* C5: names and values *)

\* C5: the block of group G is named G with "." replaced by "_" in lower case,
\* the constant of attribute A is named A with "." replaced by "_" in upper
\* case, and its value is G, ".", A, unchanged.  Group swarmsh.agent with
\* attribute agent.id gives AGENT_ID = "swarmsh.agent.agent.id" in
\* mod swarmsh_agent; group Swarmsh.Work gives mod swarmsh_work.
C5_Namespacing ==
  AttributesEmitted =>
    LET text == attributes_code.value
        mods == ModLines(text)
        gs   == RegistryGroups
    IN  /\ Len(mods) = Len(gs)
        /\ \A k \in DOMAIN gs :
             LET G   == gs[k]["id"]
                 ids == IdAttrs(gs[k])
                 m   == mods[k]
             IN  /\ ModName(text[m]) = Lower(DotsToUnderscores(G))
                 /\ G = Id_swarmsh_agent => ModName(text[m]) = X_swarmsh_agent
                 /\ G = Id_Swarmsh_Work => ModName(text[m]) = X_swarmsh_work
                 /\ m + Len(ids) <= Len(text)
                 /\ \A j \in 1..Len(ids) :
                      LET A == ids[j]["id"]
                          l == text[m + j]
                      IN  /\ IsConstLine(l)
                          /\ ConstName(l) = Upper(DotsToUnderscores(A))
                          /\ ConstValue(l) = G \o <<".">> \o A
                          /\ (G = Id_swarmsh_agent /\ A = A_agent_id) =>
                               /\ ConstName(l) = X_AGENT_ID
                               /\ ConstValue(l) = X_swarmsh_agent_agent_id

C5_Witness ==
  /\ AttributesEmitted
  /\ \E k \in DOMAIN RegistryGroups :
       /\ RegistryGroups[k]["id"] = Id_swarmsh_agent
       /\ Len(IdAttrs(RegistryGroups[k])) >= 1
       /\ IdAttrs(RegistryGroups[k])[1]["id"] = A_agent_id
  /\ \E i \in DOMAIN attributes_code.value :
       /\ IsConstLine(attributes_code.value[i])
       /\ ConstName(attributes_code.value[i]) = X_AGENT_ID
       /\ ConstValue(attributes_code.value[i]) = X_swarmsh_agent_agent_id
       /\ i > 1
       /\ IsModLine(attributes_code.value[i - 1])
       /\ ModName(attributes_code.value[i - 1]) = X_swarmsh_agent

----------------------------------------------------------------------------
(* C8: groups without attributes, documents without groups *)

NoAttributes(g) == "attributes" \notin DOMAIN g \/ g["attributes"] = <<>>

\* the position at which the block of the k-th group starts when every block
\* before it has its comment, pub mod, constants, closing and blank line
RECURSIVE BlockStart(_, _)
BlockStart(gs, k) ==
  IF k = 1 THEN Len(AttributesHeader) + 1
  ELSE BlockStart(gs, k - 1) + Len(IdAttrs(gs[k - 1])) + Len(<<"//", "mod", "}", "">>)

----------------------------------------------------------------------------
(* C9: attributes with the same constant name *)

SameConstName(a, b) ==
  Upper(DotsToUnderscores(a["id"])) = Upper(DotsToUnderscores(b["id"]))

\* the positions of the constant lines of the block opened at position m
BlockConsts(text, m) ==
  {i \in (m + 1)..(CloseAfter(text, m) - 1) : IsConstLine(text[i])}

\* C9 as stated: of the attributes of a group with the same constant name the
\* last wins: the block holds one constant of that name, with the value of the
\* later attribute.
C9_LastWins ==
  AttributesEmitted =>
    LET text == attributes_code.value
        mods == ModLines(text)
    IN  \A k \in DOMAIN mods :
          \A i, j \in BlockConsts(text, mods[k]) :
            ConstName(text[i]) = ConstName(text[j]) => i = j

\* C9 amended: attributes of a group with the same constant name each keep
\* their constant line: the block holds one line per such attribute, in
\* declared order, each with the value of its own attribute, and generation
\* does not fail.
C9_AllKept ==
  /\ AttributesEmitted =>
       LET text == attributes_code.value
           mods == ModLines(text)
           gs   == RegistryGroups
       IN  /\ Len(mods) = Len(gs)
           /\ \A k \in DOMAIN gs :
                LET ids == IdAttrs(gs[k])
                    m   == mods[k]
                IN  \A i, j \in DOMAIN ids :
                      (i < j /\ SameConstName(ids[i], ids[j])) =>
                        /\ {m + i, m + j} \subseteq BlockConsts(text, m)
                        /\ ConstName(text[m + i]) = ConstName(text[m + j])
                        /\ ConstValue(text[m + i]) = gs[k]["id"] \o <<".">> \o ids[i]["id"]
                        /\ ConstValue(text[m + j]) = gs[k]["id"] \o <<".">> \o ids[j]["id"]
  /\ (conventions.bound /\ ~BrokenRegistry
        /\ \E k \in DOMAIN RegistryGroups :
             \E i, j \in DOMAIN IdAttrs(RegistryGroups[k]) :
               i < j /\ SameConstName(IdAttrs(RegistryGroups[k])[i],
                                      IdAttrs(RegistryGroups[k])[j]))
       => pc # "aborted"

C9_Witness ==
  /\ AttributesEmitted
  /\ pc = "done"
  /\ \E k \in DOMAIN RegistryGroups :
       /\ "attributes" \in DOMAIN RegistryGroups[k]
       /\ RegistryGroups[k]["attributes"] = <<[id |-> A_agent_id], [id |-> A_agent_id_u]>>

----------------------------------------------------------------------------
(* C6: determinism over successive runs *)

----------------------------------------------------------------------------
(* C7: the preamble *)

PreambleBuilders ==
  { <<S_agent_lifecycle_span, S_swarmsh_agent_lifecycle>>,
    <<S_work_coordination_span, S_swarmsh_work_coordination>>,
    <<S_coordination_protocol_span, S_swarmsh_coordination_protocol>> }

\* C7: whatever the registry holds, the span-builders text has the functions
\* agent_lifecycle_span, work_coordination_span and coordination_protocol_span,
\* starting the spans swarmsh.agent.lifecycle, swarmsh.work.coordination and
\* swarmsh.coordination.protocol.
C7_PreambleInvariance ==
  SpanBuildersEmitted =>
    \A b \in PreambleBuilders :
      /\ HasBuilder(span_builders_code.value, b[1], b[2])
      /\ \E i \in 1..(Len(span_builders_code.value) - 2) :
           /\ IsFnLine(span_builders_code.value[i])
           /\ FnName(span_builders_code.value[i]) = b[1]
           /\ span_builders_code.value[i + 2] = CloseLine

C7_Witness ==
  /\ SpanBuildersEmitted
  /\ \E k \in DOMAIN RegistryGroups :
       /\ RegistryGroups[k]["id"] = S_swarmsh_agent_lifecycle
       /\ "type" \in DOMAIN RegistryGroups[k]
       /\ RegistryGroups[k]["type"] = "span"
  /\ \E k \in DOMAIN RegistryGroups :
       RegistryGroups[k]["id"] = S_swarmsh_coordination_protocol

----------------------------------------------------------------------------
(* C10: registry-derived names and preamble names *)

PreambleNames == {b[1] : b \in PreambleBuilders}

HasPrefix(s, p) == Len(s) >= Len(p) /\ SubSeq(s, 1, Len(p)) = p

HasSuffix(s, p) == Len(s) >= Len(p) /\ SubSeq(s, Len(s) - Len(p) + 1, Len(s)) = p

\* C10: every function emitted for a registry group, that is every function
\* after the three core builders, is named create_..._span, so none has the
\* name of a preamble function, and each preamble name is defined once.
C10_NoPreambleClash ==
  SpanBuildersEmitted =>
    LET text == span_builders_code.value
        fns  == SelectSeq([i \in 1..Len(text) |-> i], LAMBDA i : IsFnLine(text[i]))
    IN  /\ Len(fns) >= Cardinality(PreambleBuilders)
        /\ \A n \in 1..Len(fns) :
             n > Cardinality(PreambleBuilders) =>
               /\ HasPrefix(FnName(text[fns[n]]), S_create_)
               /\ HasSuffix(FnName(text[fns[n]]), S_span)
               /\ Len(FnName(text[fns[n]])) >= Len(S_create_) + Len(S_span)
               /\ FnName(text[fns[n]]) \notin PreambleNames
        /\ \A name \in PreambleNames :
             Cardinality({n \in 1..Len(fns) : FnName(text[fns[n]]) = name}) = 1

C10_Witness ==
  /\ SpanBuildersEmitted
  /\ \E k \in DOMAIN RegistryGroups :
       /\ RegistryGroups[k]["id"] = Id_agent_lifecycle
       /\ "type" \in DOMAIN RegistryGroups[k]
       /\ RegistryGroups[k]["type"] = "span"
  /\ Cardinality({i \in DOMAIN span_builders_code.value :
                    IsFnLine(span_builders_code.value[i])})
       > Cardinality(PreambleBuilders)

====
